---- MODULE Spec2Model ----
(***************************************************************************)
(* A model of the lead deduplication core of ai-sdr: the Deduplicator      *)
(* class (tokenize, jaccardSimilarity, isDuplicate, generateId, dedupe).   *)
(*                                                                         *)
(* JavaScript values are modelled as records [k, v]: k is the type tag     *)
(* ("undef", "str" or "num") and v the characters of a string, one         *)
(* one-character string per element; for a number held in a field of a     *)
(* posting, v is its decimal notation.  Numbers produced by a division are *)
(* kept as the exact pair [n, d] of the dividend and the divisor; 0/0 is   *)
(* NaN.                                                                    *)
(***************************************************************************)
EXTENDS Integers, Sequences, FiniteSets, TLC

VARIABLES
    strA, strB, simAB, simBA, simPc,        \* jaccardSimilarity(a, b) and (b, a)
    tokA,                                   \* tokenize(a)
    dupA, dupB, dupDet, dupOut, dupPc,      \* isDuplicate(dupA, dupB) on dupDet
    dupBack,                                \* isDuplicate(dupB, dupA) on dupDet
    det, batch, out1, out2, pc,             \* dedupe(batch), then dedupe(unique)
    outBare,                                \* dedupe of the batch without its ids
    instGiven, insts, instA, instB,         \* two detectors built from options,
    instRuns, instPair, instPc,             \* isDuplicate and dedupe on (instA, instB)
    dbLeads, dbSaves, runs, stale,          \* the store and the runs of processLeads
    dbCall                                  \* the last call made on the store

simVars == <<strA, strB, simAB, simBA, simPc, tokA>>
dupVars == <<dupA, dupB, dupDet, dupOut, dupPc, dupBack>>
batchVars == <<det, batch, out1, out2, pc, outBare>>
instVars == <<instGiven, insts, instA, instB, instRuns, instPair, instPc>>
storeVars == <<dbLeads, dbSaves, runs, stale, dbCall>>
vars == <<simVars, dupVars, batchVars, instVars, storeVars>>

----------------------------------------------------------------------------
(* Bounds of the model.                                                    *)

\* strings of the similarity specification are made of at most MaxPieces pieces
MaxPieces == 3
\* a batch given to dedupe holds at most MaxBatch postings
MaxBatch == 3
\* a run of processLeads is given at most MaxRun postings
MaxRun == 2
\* at most MaxCalls calls are made on a Database
MaxCalls == 4

----------------------------------------------------------------------------
(* JavaScript values.                                                      *)

Undef == [k |-> "undef", v |-> <<>>]
Str(s) == [k |-> "str", v |-> s]

\* a number, by its decimal notation
Num(digits) == [k |-> "num", v |-> digits]

\* the truthiness of a value: undefined, "" and 0 are falsy
Truthy(x) ==
    \/ x.k = "str" /\ x.v # <<>>
    \/ x.k = "num" /\ x.v # <<"0">>

\* `x || ''` followed by its conversion to a string
OrEmpty(x) == IF Truthy(x) THEN x.v ELSE <<>>

\* the quotient n / d of two set sizes, as JavaScript computes it: 0 / 0 is NaN
Quot(n, d) == [n |-> n, d |-> d]
IsNaN(x) == x.d = 0 /\ x.n = 0

\* a strict comparison in place of >=
NumGE_strict(x, t) == x.d > 0 /\ t.d > 0 /\ x.n * t.d > t.n * x.d

\* x >= t on numbers: false when either side is NaN
NumGE(x, t) == x.d > 0 /\ t.d > 0 /\ x.n * t.d >= t.n * x.d
\* x == t on numbers: false when either side is NaN
NumEq(x, t) == x.d > 0 /\ t.d > 0 /\ x.n * t.d = t.n * x.d

----------------------------------------------------------------------------
(* Characters.                                                             *)

Lowers == <<"a","b","c","d","e","f","g","h","i","j","k","l","m",
            "n","o","p","q","r","s","t","u","v","w","x","y","z">>
Uppers == <<"A","B","C","D","E","F","G","H","I","J","K","L","M",
            "N","O","P","Q","R","S","T","U","V","W","X","Y","Z">>
Digits == {"0","1","2","3","4","5","6","7","8","9"}
Range(s) == {s[i] : i \in 1..Len(s)}

\* \s of a regular expression, as far as the model's alphabet goes
SpaceChars == {" ", "\t", "\n"}
IsSpace(c) == c \in SpaceChars
\* \w of a regular expression: [A-Za-z0-9_]
WordChars == Range(Lowers) \cup Range(Uppers) \cup Digits \cup {"_"}
IsWordChar(c) == c \in WordChars

\* .toLowerCase(), character by character
UpperSet == Range(Uppers)
LowerOf == [c \in UpperSet |-> Lowers[CHOOSE i \in 1..Len(Uppers) : Uppers[i] = c]]
LowerChar(c) == IF c \in UpperSet THEN LowerOf[c] ELSE c
toLowerCase(s) == [i \in 1..Len(s) |-> LowerChar(s[i])]

\* .replace(/[^\w\s]/g, ' '), character by character
StripChar(c) == IF IsWordChar(c) \/ IsSpace(c) THEN c ELSE " "
StripPunctuation(s) == [i \in 1..Len(s) |-> StripChar(s[i])]

\* .split(/\s+/): the pieces between the maximal runs of whitespace; a run at
\* the start or the end leaves an empty piece there, and "" splits to [""]
RECURSIVE SplitFrom(_, _, _, _)
SplitFrom(s, i, cur, out) ==
    IF i > Len(s) THEN Append(out, cur)
    ELSE IF IsSpace(s[i])
         THEN IF i > 1 /\ IsSpace(s[i - 1])
              THEN SplitFrom(s, i + 1, cur, out)
              ELSE SplitFrom(s, i + 1, <<>>, Append(out, cur))
         ELSE SplitFrom(s, i + 1, Append(cur, s[i]), out)
SplitWs(s) == SplitFrom(s, 1, <<>>, <<>>)

\* a filter that keeps the words of more than 3 characters
LongTokens_over3(ts) == SelectSeq(ts, LAMBDA w : Len(w) > 3)

\* .filter(w => w.length > 2)
LongTokens(ts) == SelectSeq(ts, LAMBDA w : Len(w) > 2)

\* (text || '').toLowerCase() is a TypeError when text is truthy and not a
\* string: a number has no method toLowerCase
tokenizeThrows(text) == Truthy(text) /\ text.k # "str"

tokenize(text) ==
    LongTokens(SplitWs(StripPunctuation(toLowerCase(OrEmpty(text)))))

\* a similarity measured against the first string only: the part of its
\* tokens that the second string has
jaccardSimilarity_ofFirst(str1, str2) ==
    LET set1 == Range(tokenize(str1))
        set2 == Range(tokenize(str2))
        intersection == {x \in set1 : x \in set2}
    IN Quot(Cardinality(intersection), Cardinality(set1))

\* a similarity that takes two empty token sets for equal sets: 1 where the
\* union is empty
jaccardSimilarity_emptyIsOne(str1, str2) ==
    LET set1 == Range(tokenize(str1))
        set2 == Range(tokenize(str2))
        intersection == {x \in set1 : x \in set2}
        union == set1 \cup set2
    IN IF union = {} THEN Quot(1, 1)
       ELSE Quot(Cardinality(intersection), Cardinality(union))

\* intersection.size / union.size

jaccardSimilarity(str1, str2) ==
    LET set1 == Range(tokenize(str1))
        set2 == Range(tokenize(str2))
        intersection == {x \in set1 : x \in set2}
        union == set1 \cup set2
    IN Quot(Cardinality(intersection), Cardinality(union))

----------------------------------------------------------------------------
(* The Deduplicator.                                                       *)

\* an option that was not given
NoOption == [n |-> 0, d |-> 0]
\* a number option is falsy when it is missing or 0
TruthyNum(x) == x.d > 0 /\ x.n # 0

DefaultSimilarityThreshold == Quot(85, 100)
DefaultTitleThreshold == Quot(9, 10)

\* constructor(options = {})
Deduplicator(options) ==
    [ similarityThreshold |->
          IF TruthyNum(options.similarityThreshold)
          THEN options.similarityThreshold ELSE DefaultSimilarityThreshold,
      titleThreshold |->
          IF TruthyNum(options.titleThreshold)
          THEN options.titleThreshold ELSE DefaultTitleThreshold ]

\* `${lead.title || ''} ${lead.text || ''}`
Content(lead) == Str(OrEmpty(lead.title) \o <<" ">> \o OrEmpty(lead.text))

\* the url test made only for leads of one source
SameUrl_sameSource(lead1, lead2) ==
    /\ lead1.source = lead2.source
    /\ Truthy(lead1.url) /\ Truthy(lead2.url) /\ lead1.url = lead2.url

\* a first test that also takes two leads with the same id for duplicates
SameUrl_orSameId(lead1, lead2) ==
    \/ Truthy(lead1.url) /\ Truthy(lead2.url) /\ lead1.url = lead2.url
    \/ Truthy(lead1.id) /\ Truthy(lead2.id) /\ lead1.id = lead2.id

\* lead1.url && lead2.url && lead1.url === lead2.url
SameUrl(lead1, lead2) ==
    Truthy(lead1.url) /\ Truthy(lead2.url) /\ lead1.url = lead2.url

\* isDuplicate returning the title test's verdict for leads of one source,
\* without going on to the content test
isDuplicateRun_titleDecides(this, lead1, lead2) ==
    IF SameUrl(lead1, lead2)
    THEN [dup |-> TRUE, tier |-> 1, sims |-> 0]
    ELSE IF lead1.source = lead2.source
    THEN LET dup == NumGE(jaccardSimilarity(lead1.title, lead2.title),
                          this.titleThreshold)
         IN [dup |-> dup, tier |-> IF dup THEN 2 ELSE 0, sims |-> 1]
    ELSE LET dup == NumGE(jaccardSimilarity(Content(lead1), Content(lead2)),
                          this.similarityThreshold)
         IN [dup |-> dup, tier |-> IF dup THEN 3 ELSE 0, sims |-> 1]

\* One run of isDuplicate(lead1, lead2) on detector this: the value returned
\* (dup), the return statement that produced it (tier: 1, 2, 3 for the three
\* tests that returned true, 0 for the final false) and the number of calls of
\* jaccardSimilarity the run made (sims).
isDuplicateRun(this, lead1, lead2) ==
    IF SameUrl(lead1, lead2)
    THEN [dup |-> TRUE, tier |-> 1, sims |-> 0]
    ELSE LET sameSource == lead1.source = lead2.source
             titleSim == jaccardSimilarity(lead1.title, lead2.title)
         IN IF sameSource /\ NumGE(titleSim, this.titleThreshold)
            THEN [dup |-> TRUE, tier |-> 2, sims |-> 1]
            ELSE LET similarity ==
                         jaccardSimilarity(Content(lead1), Content(lead2))
                     dup == NumGE(similarity, this.similarityThreshold)
                 IN [dup |-> dup,
                     tier |-> IF dup THEN 3 ELSE 0,
                     sims |-> IF sameSource THEN 2 ELSE 1]

isDuplicate(this, lead1, lead2) == isDuplicateRun(this, lead1, lead2).dup

\* isDuplicate throws where it reaches a tokenize that throws: the title test
\* of two leads of one source whose urls did not match.  The content test
\* works on template strings and does not throw.
isDuplicateThrows(lead1, lead2) ==
    /\ ~SameUrl(lead1, lead2)
    /\ lead1.source = lead2.source
    /\ tokenizeThrows(lead1.title) \/ tokenizeThrows(lead2.title)

\* how a call isDuplicate(lead1, lead2) ends: with a TypeError (threw) or
\* with the run that returns
isDuplicateOutcome(this, lead1, lead2) ==
    IF isDuplicateThrows(lead1, lead2)
    THEN [threw |-> TRUE, run |-> [dup |-> FALSE, tier |-> -1, sims |-> 1]]
    ELSE [threw |-> FALSE, run |-> isDuplicateRun(this, lead1, lead2)]

\* `${x}` of a template literal: undefined prints as "undefined"
Template(x) ==
    IF x.k = "undef" THEN <<"u","n","d","e","f","i","n","e","d">> ELSE x.v

\* lead.title || lead.text || ''
TitleOrText(lead) ==
    IF Truthy(lead.title) THEN lead.title.v ELSE OrEmpty(lead.text)

\* The first 16 hex digits of the SHA-256 digest of content, kept symbolic: the
\* digest of a content is "#" followed by that content, so that equal contents
\* give equal ids and different contents different ids (a collision of the
\* truncated hash is not modelled).
Digest(content) == Str(<<"#">> \o content)

\* an id that takes in the text as well as the title
generateId_withText(lead) ==
    Digest(Template(lead.source) \o <<":">> \o OrEmpty(lead.url) \o <<":">>
           \o OrEmpty(lead.title) \o OrEmpty(lead.text))

generateId(lead) ==
    Digest(Template(lead.source) \o <<":">> \o OrEmpty(lead.url) \o <<":">>
           \o TitleOrText(lead))

\* { ...lead, duplicateOf: id }
WithDuplicateOf(lead, id) ==
    [id |-> lead.id, source |-> lead.source, url |-> lead.url,
     title |-> lead.title, text |-> lead.text, duplicateOf |-> id]

\* the inner loop without its break: the last unique lead accepted wins
RECURSIVE FirstDuplicate_noBreak(_, _, _, _)
FirstDuplicate_noBreak(this, lead, unique, j) ==
    IF j > Len(unique) THEN 0
    ELSE LET later == FirstDuplicate_noBreak(this, lead, unique, j + 1)
         IN IF later # 0 THEN later
            ELSE IF isDuplicate(this, lead, unique[j]) THEN j ELSE 0

\* the inner loop of dedupe from unique[j] on: the index of the first unique
\* lead that isDuplicate(lead, existing) accepts, 0 when the loop runs out
RECURSIVE FirstDuplicate(_, _, _, _)
FirstDuplicate(this, lead, unique, j) ==
    IF j > Len(unique) THEN 0
    ELSE IF isDuplicate(this, lead, unique[j]) THEN j
    ELSE FirstDuplicate(this, lead, unique, j + 1)

\* the assignment of an id left out
EnsureId_never(lead) == lead

\* if (!lead.id) lead.id = this.generateId(lead)
EnsureId(lead) ==
    IF Truthy(lead.id) THEN lead ELSE [lead EXCEPT !.id = generateId(lead)]

\* an iteration that pushes the lead to unique whether or not it was found to
\* be a duplicate (the test of isDup left out)
DedupeStep_alsoUnique(this, acc, i) ==
    LET lead == EnsureId(acc.leads[i])
        hit == FirstDuplicate(this, lead, acc.unique, 1)
        last == IF hit = 0 THEN Len(acc.unique) ELSE hit
        calls == [j \in 1..last |-> <<i, j>>]
        marked == [acc EXCEPT !.leads[i] = lead, !.cmp = @ \o calls,
                              !.unique = Append(@, lead),
                              !.uFrom = Append(@, i)]
    IN IF hit # 0
       THEN [marked EXCEPT
                !.duplicates =
                    Append(@, WithDuplicateOf(lead, acc.unique[hit].id)),
                !.dFrom = Append(@, i)]
       ELSE marked

\* an iteration that puts a new unique lead at the front (unshift for push)
DedupeStep_unshift(this, acc, i) ==
    LET lead == EnsureId(acc.leads[i])
        hit == FirstDuplicate(this, lead, acc.unique, 1)
        last == IF hit = 0 THEN Len(acc.unique) ELSE hit
        calls == [j \in 1..last |-> <<i, j>>]
        marked == [acc EXCEPT !.leads[i] = lead, !.cmp = @ \o calls]
    IN IF hit # 0
       THEN [marked EXCEPT
                !.duplicates =
                    Append(@, WithDuplicateOf(lead, acc.unique[hit].id)),
                !.dFrom = Append(@, i)]
       ELSE [marked EXCEPT !.unique = <<lead>> \o @, !.uFrom = <<i>> \o @]

\* an iteration that sets duplicateOf on the input object (lead.duplicateOf =
\* existing.id for the copy { ...lead, duplicateOf })
DedupeStep_marksInput(this, acc, i) ==
    LET lead == EnsureId(acc.leads[i])
        hit == FirstDuplicate(this, lead, acc.unique, 1)
        last == IF hit = 0 THEN Len(acc.unique) ELSE hit
        calls == [j \in 1..last |-> <<i, j>>]
        marked == [acc EXCEPT !.leads[i] = lead, !.cmp = @ \o calls]
    IN IF hit # 0
       THEN [marked EXCEPT
                !.leads[i] = WithDuplicateOf(lead, acc.unique[hit].id),
                !.duplicates =
                    Append(@, WithDuplicateOf(lead, acc.unique[hit].id)),
                !.dFrom = Append(@, i)]
       ELSE [marked EXCEPT !.unique = Append(@, lead), !.uFrom = Append(@, i)]

\* an iteration that compares the lead with every lead of the input before
\* it, those put in duplicates included
DedupeStep_againstAll(this, acc, i) ==
    LET lead == EnsureId(acc.leads[i])
        earlier == SubSeq(acc.leads, 1, i - 1)
        hit == FirstDuplicate(this, lead, earlier, 1)
        last == IF hit = 0 THEN Len(earlier) ELSE hit
        calls == [j \in 1..last |-> <<i, j>>]
        marked == [acc EXCEPT !.leads[i] = lead, !.cmp = @ \o calls]
    IN IF hit # 0
       THEN [marked EXCEPT
                !.duplicates =
                    Append(@, WithDuplicateOf(lead, earlier[hit].id)),
                !.dFrom = Append(@, i)]
       ELSE [marked EXCEPT !.unique = Append(@, lead), !.uFrom = Append(@, i)]

\* One iteration of the outer loop of dedupe, on leads[i].  acc holds the
\* input as mutated so far (leads), unique and duplicates, and three records
\* of the run that the code does not keep: uFrom and dFrom give the input
\* position each element of unique and duplicates came from, and cmp lists
\* the calls isDuplicate(leads[i], unique[j]) made, as pairs <<i, j>>.
DedupeStep(this, acc, i) ==
    LET lead == EnsureId(acc.leads[i])
        hit == FirstDuplicate(this, lead, acc.unique, 1)
        last == IF hit = 0 THEN Len(acc.unique) ELSE hit
        calls == [j \in 1..last |-> <<i, j>>]
        marked == [acc EXCEPT !.leads[i] = lead, !.cmp = @ \o calls]
    IN IF hit # 0
       THEN [marked EXCEPT
                !.duplicates =
                    Append(@, WithDuplicateOf(lead, acc.unique[hit].id)),
                !.dFrom = Append(@, i)]
       ELSE [marked EXCEPT !.unique = Append(@, lead), !.uFrom = Append(@, i)]

RECURSIVE DedupeFrom(_, _, _)
DedupeFrom(this, acc, i) ==
    IF i > Len(acc.leads) THEN acc
    ELSE DedupeFrom(this, DedupeStep(this, acc, i), i + 1)

\* dedupe(leads): { unique, duplicates }, with the input as the call leaves it
dedupe(this, leads) ==
    DedupeFrom(this,
               [leads |-> leads, unique |-> <<>>, duplicates |-> <<>>,
                uFrom |-> <<>>, dFrom |-> <<>>, cmp |-> <<>>],
               1)

\* dedupe throws where one of its calls of isDuplicate throws.  Up to the
\* first such call the run is the one dedupe computes, so dedupe throws iff
\* a call listed in cmp is one that throws.
dedupeThrows(this, leads) ==
    LET run == dedupe(this, leads)
    IN \E c \in Range(run.cmp) :
           isDuplicateThrows(run.leads[c[1]], run.leads[run.uFrom[c[2]]])

\* how a call dedupe(leads) ends
dedupeOutcome(this, leads) ==
    IF dedupeThrows(this, leads)
    THEN [threw |-> TRUE, run |-> dedupe(this, <<>>)]
    ELSE [threw |-> FALSE, run |-> dedupe(this, leads)]

----------------------------------------------------------------------------
(* The strings the similarity specification draws from: concatenations of  *)
(* at most MaxPieces pieces.                                               *)

Pieces == { <<"a","b","c">>, <<" ","A","B","C","\t">>, <<"d","e","-">>,
            <<"x","_","1"," ">> }

RECURSIVE Concats(_)
Concats(n) ==
    IF n = 0 THEN {<<>>}
    ELSE LET shorter == Concats(n - 1)
         IN shorter \cup {s \o p : s \in shorter, p \in Pieces}

\* the strings given to tokenize and jaccardSimilarity, and no string at all
SimStrings == {Str(s) : s \in Concats(MaxPieces)} \cup {Undef}

NoNumber == [n |-> -1, d |-> -1]
NoRun == [dup |-> FALSE, tier |-> -1, sims |-> -1]

SimInit ==
    /\ strA \in SimStrings
    /\ strB \in SimStrings
    /\ simAB = NoNumber
    /\ simBA = NoNumber
    /\ simPc = "start"
    /\ tokA = <<>>

Idle_sim ==
    /\ strA = Undef /\ strB = Undef /\ simAB = NoNumber /\ simBA = NoNumber
    /\ simPc = "off" /\ tokA = <<>>
Idle_dup ==
    /\ dupA = Undef /\ dupB = Undef /\ dupDet = Undef /\ dupOut = NoRun
    /\ dupPc = "off" /\ dupBack = NoRun
Idle_batch ==
    /\ det = Undef /\ batch = <<>> /\ out1 = Undef /\ out2 = Undef
    /\ pc = "off" /\ outBare = Undef
Idle_inst ==
    /\ instGiven = <<>> /\ insts = <<>> /\ instA = Undef /\ instB = Undef
    /\ instRuns = <<>> /\ instPair = Undef /\ instPc = "off"
\* no call made on the store yet
NoCall ==
    [op |-> "none", id |-> Undef, arg |-> Undef, answer |-> FALSE,
     had |-> FALSE, len |-> 0, n |-> 0, rekeyed |-> FALSE]

Idle_store ==
    /\ dbLeads = <<>> /\ dbSaves = 0 /\ runs = <<>> /\ stale = FALSE
    /\ dbCall = NoCall

\* the two calls jaccardSimilarity(a, b) and jaccardSimilarity(b, a)
Jaccard ==
    /\ simPc = "start"
    /\ simAB' = jaccardSimilarity(strA, strB)
    /\ simBA' = jaccardSimilarity(strB, strA)
    /\ simPc' = "done"
    /\ UNCHANGED <<strA, strB, tokA, dupVars, batchVars, instVars, storeVars>>

\* the call tokenize(a)
Tokenize ==
    /\ simPc = "start"
    /\ tokA' = tokenize(strA)
    /\ simPc' = "tokens"
    /\ UNCHANGED <<strA, strB, simAB, simBA, dupVars, batchVars, instVars,
                   storeVars>>

InitSim == SimInit /\ Idle_dup /\ Idle_batch /\ Idle_inst /\ Idle_store
NextSim == Jaccard \/ Tokenize
SpecSim == InitSim /\ [][NextSim]_vars

----------------------------------------------------------------------------
(* The postings and detectors the isDuplicate specification draws from.    *)
(* Titles and texts are phrases of three-letter words, long enough for a   *)
(* similarity to sit exactly on 0.9 (9 words of 10) and on 0.85 (17 of 20).*)

\* the i-th word, i in 1..25: "Waa", "Wab", ..., "Wee"
Word(i) == <<"W", Lowers[((i - 1) \div 5) + 1], Lowers[((i - 1) % 5) + 1]>>

\* the words lo..hi separated by single spaces ("" when lo > hi)
RECURSIVE Phrase(_, _)
Phrase(lo, hi) ==
    IF lo > hi THEN <<>>
    ELSE IF lo = hi THEN Word(lo)
    ELSE Word(lo) \o <<" ">> \o Phrase(lo + 1, hi)

Sources == {Str(<<"h","n">>), Str(<<"r","d">>)}
Urls == {Undef, Str(<<>>), Str(<<"u","/","1">>), Str(<<"u","/","2">>)}
DupTitles == {Undef, Str(<<"H","i">>), Str(Phrase(1, 8)), Str(Phrase(1, 9)),
              Str(Phrase(1, 10))}
DupTexts == {Undef, Str(Phrase(11, 17)), Str(Phrase(11, 20))}

DupLeads ==
    [id : {Undef}, source : Sources, url : Urls,
     title : DupTitles, text : DupTexts]

\* the values an option of the constructor takes in the model
OptionValues == {NoOption, Quot(4, 5)}
Detectors ==
    {Deduplicator([similarityThreshold |-> s, titleThreshold |-> t]) :
        s \in OptionValues, t \in OptionValues}

DupInit ==
    /\ dupA \in DupLeads
    /\ dupB \in DupLeads
    /\ dupDet \in Detectors
    /\ dupOut = NoRun
    /\ dupBack = NoRun
    /\ dupPc = "start"

\* the call isDuplicate(dupA, dupB) on detector dupDet, and the call with
\* the two postings the other way round
IsDuplicateCall ==
    /\ dupPc = "start"
    /\ dupOut' = isDuplicateRun(dupDet, dupA, dupB)
    /\ dupBack' = isDuplicateRun(dupDet, dupB, dupA)
    /\ dupPc' = "done"
    /\ UNCHANGED <<dupA, dupB, dupDet, simVars, batchVars, instVars, storeVars>>

InitDup == Idle_sim /\ DupInit /\ Idle_batch /\ Idle_inst /\ Idle_store
NextDup == IsDuplicateCall
SpecDup == InitDup /\ [][NextDup]_vars

----------------------------------------------------------------------------
(* The batches dedupe is given: at most MaxBatch postings, with and        *)
(* without an id, a url, and a title that has tokens.                      *)

Ids == {Undef, Str(<<"1">>)}
BatchUrls == {Undef, Str(<<"u","/","1">>)}
BatchTitles == {Str(<<"H","i">>), Str(Phrase(1, 2))}

BatchLeads ==
    [id : Ids, source : Sources, url : BatchUrls,
     title : BatchTitles, text : {Undef}]

Batches == UNION {[1..n -> BatchLeads] : n \in 0..MaxBatch}

NoResult ==
    [leads |-> <<>>, unique |-> <<>>, duplicates |-> <<>>,
     uFrom |-> <<>>, dFrom |-> <<>>, cmp |-> <<>>]

BatchInit ==
    /\ det = Deduplicator([similarityThreshold |-> NoOption,
                           titleThreshold |-> NoOption])
    /\ batch \in Batches
    /\ out1 = NoResult
    /\ out2 = NoResult
    /\ outBare = NoResult
    /\ pc = "start"

\* const { unique, duplicates } = det.dedupe(batch)
Dedupe ==
    /\ pc = "start"
    /\ out1' = dedupe(det, batch)
    /\ pc' = "deduped"
    /\ UNCHANGED <<det, batch, out2, outBare, simVars, dupVars, instVars,
                   storeVars>>

\* det.dedupe(unique) on the unique list the first call returned
DedupeAgain ==
    /\ pc = "deduped"
    /\ out2' = dedupe(det, out1.unique)
    /\ pc' = "again"
    /\ UNCHANGED <<det, batch, out1, outBare, simVars, dupVars, instVars,
                   storeVars>>

\* the postings of a batch as they are given by a caller that sets no ids
WithoutIds(leads) == [i \in 1..Len(leads) |-> [leads[i] EXCEPT !.id = Undef]]

\* det.dedupe on a batch that differs from batch in its ids only
DedupeWithoutIds ==
    /\ pc = "deduped"
    /\ outBare' = dedupe(det, WithoutIds(batch))
    /\ pc' = "bare"
    /\ UNCHANGED <<det, batch, out1, out2, simVars, dupVars, instVars,
                   storeVars>>

Init == Idle_sim /\ Idle_dup /\ BatchInit /\ Idle_inst /\ Idle_store
Next == Dedupe \/ DedupeAgain \/ DedupeWithoutIds
Spec == Init /\ [][Next]_vars

----------------------------------------------------------------------------
(* Two detectors built from the options given to the constructor, and a    *)
(* pair of postings handed to isDuplicate on each of them and to dedupe.   *)
(* Where the options vary the postings are plain ones; under the default   *)
(* options the postings vary in every field, with numbers in the place of  *)
(* strings among the values.                                               *)

AsapTitle ==
    <<"N","e","e","d"," ","G","o","o","g","l","e"," ","A","d","s"," ",
      "H","e","l","p"," ","A","S","A","P">>
AsapNowTitle == AsapTitle \o <<" ","N","o","w">>

InstIds == {Undef, Str(<<"7">>)}
InstUrls == {Undef, Str(<<"u","/","1">>), Str(<<"u","/","2">>),
             Num(<<"4","0","4">>)}
InstTitles == {Undef, Str(AsapTitle), Str(AsapNowTitle), Num(<<"4","0","4">>)}
InstTexts == {Undef, Str(<<"n","o","w">>)}

InstLeads ==
    [id : InstIds, source : Sources, url : InstUrls,
     title : InstTitles, text : InstTexts]

\* postings with a string title and nothing else but a source
PlainLeads ==
    [id : {Undef}, source : Sources, url : {Undef},
     title : {Str(AsapTitle), Str(AsapNowTitle)}, text : {Undef}]

NoOptions == [similarityThreshold |-> NoOption, titleThreshold |-> NoOption]

\* the options objects given to the constructor: {}, both thresholds 0, a
\* title threshold alone, both thresholds
GivenOptions ==
    { NoOptions,
      [similarityThreshold |-> Quot(0, 1), titleThreshold |-> Quot(0, 1)],
      [similarityThreshold |-> NoOption, titleThreshold |-> Quot(4, 5)],
      [similarityThreshold |-> Quot(4, 5), titleThreshold |-> Quot(1, 1)] }

InstCases ==
    {[given |-> <<o1, o2>>, a |-> a, b |-> b] :
        o1 \in GivenOptions, o2 \in GivenOptions,
        a \in PlainLeads, b \in PlainLeads}
    \cup
    {[given |-> <<NoOptions, NoOptions>>, a |-> a, b |-> b] :
        a \in InstLeads, b \in InstLeads}

NoOutcome == [threw |-> FALSE, run |-> NoResult]

InstInit ==
    \E c \in InstCases :
        /\ instGiven = c.given
        /\ instA = c.a
        /\ instB = c.b
        /\ insts = <<>>
        /\ instRuns = <<>>
        /\ instPair = NoOutcome
        /\ instPc = "start"

\* new Deduplicator(options), for the first and then for the second detector:
\* the constructor writes the thresholds of the object it creates
Construct ==
    /\ instPc = "start"
    /\ insts' = Append(insts, Deduplicator(instGiven[Len(insts) + 1]))
    /\ instPc' = IF Len(insts) = 1 THEN "built" ELSE "start"
    /\ UNCHANGED <<instGiven, instA, instB, instRuns, instPair,
                   simVars, dupVars, batchVars, storeVars>>

\* isDuplicate(instA, instB) on each of the two detectors
IsDuplicateOnEach ==
    /\ instPc = "built"
    /\ instRuns' = [i \in 1..Len(insts) |->
                        isDuplicateOutcome(insts[i], instA, instB)]
    /\ instPc' = "called"
    /\ UNCHANGED <<instGiven, insts, instA, instB, instPair,
                   simVars, dupVars, batchVars, storeVars>>

\* dedupe([instA, instB]) on the first detector
DedupePair ==
    /\ instPc = "called"
    /\ instPair' = dedupeOutcome(insts[1], <<instA, instB>>)
    /\ instPc' = "deduped"
    /\ UNCHANGED <<instGiven, insts, instA, instB, instRuns,
                   simVars, dupVars, batchVars, storeVars>>

InitInst == Idle_sim /\ Idle_dup /\ Idle_batch /\ InstInit /\ Idle_store
NextInst == Construct \/ IsDuplicateOnEach \/ DedupePair
SpecInst == InitInst /\ [][NextInst]_vars

----------------------------------------------------------------------------
(* The store (Database of lib/db.js), checkExisting, and the ingestion     *)
(* runs of processLeads.  this.data.leads is a sequence of records; a      *)
(* field with the value Undef is a property the object does not have.  The *)
(* file the store saves to holds what this.data holds after each save, and *)
(* dbSaves counts the saves; the time stamps capturedAt and updatedAt are  *)
(* left out.                                                               *)

\* this.data.leads.find(l => l.id === id) from position j on: the position
\* of the lead found, 0 when there is none
RECURSIVE FindById(_, _, _)
FindById(leads, id, j) ==
    IF j > Len(leads) THEN 0
    ELSE IF leads[j].id = id THEN j
    ELSE FindById(leads, id, j + 1)

getLeadById(leads, id) ==
    LET j == FindById(leads, id, 1)
    IN IF j = 0 THEN Undef ELSE leads[j]

getAllLeads(leads) == leads

\* a property of the target after Object.assign: the source's where it has one
Over(old, new) == IF new = Undef THEN old ELSE new

\* Object.assign(existing, lead, { updatedAt })
Assign(existing, lead) ==
    [id |-> Over(existing.id, lead.id),
     source |-> Over(existing.source, lead.source),
     url |-> Over(existing.url, lead.url),
     title |-> Over(existing.title, lead.title),
     text |-> Over(existing.text, lead.text),
     score |-> Over(existing.score, lead.score),
     processed |-> lead.processed]

\* addLead(lead): the answer's added and the leads of the store afterwards
addLead(leads, lead) ==
    LET j == FindById(leads, lead.id, 1)
    IN IF j # 0
       THEN [added |-> FALSE, leads |-> [leads EXCEPT ![j] = Assign(@, lead)]]
       ELSE [added |-> TRUE, leads |-> Append(leads, lead)]

\* the loop left out: no stored lead is compared
FirstSimilar_none(this, lead, allLeads, j) == 0

\* the loop without its return: the last lead accepted is the one reported
RECURSIVE FirstSimilar_last(_, _, _, _)
FirstSimilar_last(this, lead, allLeads, j) ==
    IF j > Len(allLeads) THEN 0
    ELSE LET later == FirstSimilar_last(this, lead, allLeads, j + 1)
         IN IF later # 0 THEN later
            ELSE IF isDuplicate(this, lead, allLeads[j]) THEN j ELSE 0

\* the loop of checkExisting over allLeads from position j on: the position
\* of the first lead that isDuplicate(lead, existing) accepts, 0 for none
RECURSIVE FirstSimilar(_, _, _, _)
FirstSimilar(this, lead, allLeads, j) ==
    IF j > Len(allLeads) THEN 0
    ELSE IF isDuplicate(this, lead, allLeads[j]) THEN j
    ELSE FirstSimilar(this, lead, allLeads, j + 1)

\* the lookups of the store that may throw, and "none"
Faults == {"none", "getLeadById", "getAllLeads"}

NoAnswer == [exists |-> FALSE, lead |-> Undef, similar |-> FALSE]

\* checkExisting with the scan for a similar lead made before the lookup by id
checkExisting_similarFirst(this, lead, leads, fault) ==
    LET allLeads == getAllLeads(leads)
        j == FirstSimilar(this, lead, allLeads, 1)
        existing == getLeadById(leads, lead.id)
    IN IF j # 0
       THEN [threw |-> FALSE, error |-> "none",
             answer |-> [exists |-> TRUE, lead |-> allLeads[j],
                         similar |-> TRUE],
             byId |-> 0, all |-> 1, cmp |-> j]
       ELSE IF existing # Undef
       THEN [threw |-> FALSE, error |-> "none",
             answer |-> [exists |-> TRUE, lead |-> existing,
                         similar |-> FALSE],
             byId |-> 1, all |-> 1, cmp |-> Len(allLeads)]
       ELSE [threw |-> FALSE, error |-> "none", answer |-> NoAnswer,
             byId |-> 1, all |-> 1, cmp |-> Len(allLeads)]

\* checkExisting with its body in a try whose catch returns { exists: false }
checkExisting_swallow(this, lead, leads, fault) ==
    IF fault = "getLeadById"
    THEN [threw |-> FALSE, error |-> "none", answer |-> NoAnswer,
          byId |-> 1, all |-> 0, cmp |-> 0]
    ELSE LET existing == getLeadById(leads, lead.id)
         IN IF existing # Undef
            THEN [threw |-> FALSE, error |-> "none",
                  answer |-> [exists |-> TRUE, lead |-> existing,
                              similar |-> FALSE],
                  byId |-> 1, all |-> 0, cmp |-> 0]
            ELSE IF fault = "getAllLeads"
            THEN [threw |-> FALSE, error |-> "none", answer |-> NoAnswer,
                  byId |-> 1, all |-> 1, cmp |-> 0]
            ELSE LET allLeads == getAllLeads(leads)
                     j == FirstSimilar(this, lead, allLeads, 1)
                 IN IF j # 0
                    THEN [threw |-> FALSE, error |-> "none",
                          answer |-> [exists |-> TRUE, lead |-> allLeads[j],
                                      similar |-> TRUE],
                          byId |-> 1, all |-> 1, cmp |-> j]
                    ELSE [threw |-> FALSE, error |-> "none",
                          answer |-> NoAnswer,
                          byId |-> 1, all |-> 1, cmp |-> Len(allLeads)]

\* One call checkExisting(lead, db) on a store holding leads, of which the
\* lookup named by fault throws when it is called.  threw and error tell how
\* the promise settles (rejected with the error of the lookup); answer is the
\* value it resolves to ({ exists }, { exists, lead } or { exists, lead,
\* similar }); byId, all and cmp count the calls of getLeadById, getAllLeads
\* and isDuplicate the call made.
checkExisting(this, lead, leads, fault) ==
    IF fault = "getLeadById"
    THEN [threw |-> TRUE, error |-> fault, answer |-> NoAnswer,
          byId |-> 1, all |-> 0, cmp |-> 0]
    ELSE LET existing == getLeadById(leads, lead.id)
         IN IF existing # Undef
            THEN [threw |-> FALSE, error |-> "none",
                  answer |-> [exists |-> TRUE, lead |-> existing,
                              similar |-> FALSE],
                  byId |-> 1, all |-> 0, cmp |-> 0]
            ELSE IF fault = "getAllLeads"
            THEN [threw |-> TRUE, error |-> fault, answer |-> NoAnswer,
                  byId |-> 1, all |-> 1, cmp |-> 0]
            ELSE LET allLeads == getAllLeads(leads)
                     j == FirstSimilar(this, lead, allLeads, 1)
                 IN IF j # 0
                    THEN [threw |-> FALSE, error |-> "none",
                          answer |-> [exists |-> TRUE, lead |-> allLeads[j],
                                      similar |-> TRUE],
                          byId |-> 1, all |-> 1, cmp |-> j]
                    ELSE [threw |-> FALSE, error |-> "none",
                          answer |-> NoAnswer,
                          byId |-> 1, all |-> 1, cmp |-> Len(allLeads)]

\* const dedupe = new Deduplicator() of the collector
collectorDedupe == Deduplicator(NoOptions)

\* { ...lead, score: 'PENDING', processed: false }
Pending(lead) ==
    [id |-> lead.id, source |-> lead.source, url |-> lead.url,
     title |-> lead.title, text |-> lead.text,
     score |-> Str(<<"P", "E", "N", "D", "I", "N", "G">>), processed |-> FALSE]

\* the postings the runs ingest
StoreIds == {Str(<<"1">>), Str(<<"2">>), Str(<<"3">>)}
StoreLeads ==
    {l \in [id : StoreIds, source : {Str(<<"h","n">>)}, url : BatchUrls,
            title : BatchTitles, text : {Undef}] :
        Truthy(l.url) \/ l.title = Str(Phrase(1, 2))}

\* the runs of processLeads that share the store
Runs == {"A", "B"}

NoCheck ==
    [threw |-> FALSE, error |-> "none", answer |-> NoAnswer,
     byId |-> 0, all |-> 0, cmp |-> 0]

\* a run at the head of its loop, nothing ingested yet
NewRun ==
    [pc |-> "loop", lead |-> Undef, existing |-> NoCheck, seen |-> 0,
     fault |-> "none", error |-> "none", n |-> 0, added |-> 0,
     duplicates |-> 0]

StoreInit ==
    /\ dbLeads = <<>>
    /\ dbSaves = 0
    /\ runs = [r \in Runs |-> NewRun]
    /\ stale = FALSE
    /\ dbCall = NoCall

\* An iteration of the loop of processLeads up to its await: the run takes
\* the next posting of its list and calls checkExisting, which runs to its
\* end; the run then waits for the promise.  seen keeps the number of saves
\* of the store at the time of the call and fault the lookup that was to
\* throw, one of faults.
CheckWith(r, faults) ==
    /\ runs[r].pc = "loop"
    /\ runs[r].n < MaxRun
    /\ \E lead \in StoreLeads, fault \in faults :
           runs' = [runs EXCEPT ![r] =
                        [@ EXCEPT !.pc = "await", !.lead = lead,
                                  !.existing = checkExisting(collectorDedupe,
                                                   lead, dbLeads, fault),
                                  !.seen = dbSaves, !.fault = fault]]
    /\ UNCHANGED <<dbLeads, dbSaves, stale, dbCall>>
    /\ UNCHANGED <<simVars, dupVars, batchVars, instVars>>

\* the iteration on the Database of lib/db.js, whose lookups do not throw
Check(r) == CheckWith(r, {"none"})

\* the iteration on a store whose lookups may throw
CheckFaulty(r) == CheckWith(r, Faults)

\* the rest of the iteration without the test of existing.exists: every
\* posting checked without an error is given to addLead
Resume_addsAnyway(r) ==
    /\ runs[r].pc = "await"
    /\ LET run == runs[r]
           back == [run EXCEPT !.pc = "loop", !.lead = Undef,
                               !.existing = NoCheck, !.seen = 0,
                               !.fault = "none", !.n = @ + 1]
       IN IF run.existing.threw
          THEN /\ runs' = [runs EXCEPT ![r] =
                               [run EXCEPT !.pc = "failed",
                                           !.error = run.existing.error]]
               /\ UNCHANGED <<dbLeads, dbSaves, stale>>
          ELSE LET result == addLead(dbLeads, Pending(run.lead))
               IN /\ dbLeads' = result.leads
                  /\ dbSaves' = dbSaves + 1
                  /\ runs' = [runs EXCEPT ![r] =
                                  [back EXCEPT !.added =
                                       IF result.added THEN @ + 1 ELSE @]]
                  /\ stale' = (stale \/ dbSaves # run.seen)
    /\ UNCHANGED <<dbCall, simVars, dupVars, batchVars, instVars>>

\* The rest of the iteration, after the await: a rejected promise ends the
\* run with the error; a posting that exists is counted and skipped; any
\* other is given to addLead.  stale records that addLead was called on a
\* store that had changed since the run's checkExisting.
Resume(r) ==
    /\ runs[r].pc = "await"
    /\ LET run == runs[r]
           back == [run EXCEPT !.pc = "loop", !.lead = Undef,
                               !.existing = NoCheck, !.seen = 0,
                               !.fault = "none", !.n = @ + 1]
       IN IF run.existing.threw
          THEN /\ runs' = [runs EXCEPT ![r] =
                               [run EXCEPT !.pc = "failed",
                                           !.error = run.existing.error]]
               /\ UNCHANGED <<dbLeads, dbSaves, stale>>
          ELSE IF run.existing.answer.exists
          THEN /\ runs' = [runs EXCEPT ![r] =
                               [back EXCEPT !.duplicates = @ + 1]]
               /\ UNCHANGED <<dbLeads, dbSaves, stale>>
          ELSE LET result == addLead(dbLeads, Pending(run.lead))
               IN /\ dbLeads' = result.leads
                  /\ dbSaves' = dbSaves + 1
                  /\ runs' = [runs EXCEPT ![r] =
                                  [back EXCEPT !.added =
                                       IF result.added THEN @ + 1 ELSE @]]
                  /\ stale' = (stale \/ dbSaves # run.seen)
    /\ UNCHANGED <<dbCall, simVars, dupVars, batchVars, instVars>>

InitStore == Idle_sim /\ Idle_dup /\ Idle_batch /\ Idle_inst /\ StoreInit
NextStore == \E r \in Runs : Check(r) \/ Resume(r)
SpecStore == InitStore /\ [][NextStore]_vars

\* Runs of processLeads executed one after another: a run goes into an
\* iteration only while no other run is waiting in one.
CheckInTurn(r) ==
    /\ \A q \in Runs \ {r} : runs[q].pc # "await"
    /\ Check(r)

NextSeq == \E r \in Runs : CheckInTurn(r) \/ Resume(r)
SpecSeq == InitStore /\ [][NextSeq]_vars

\* one run of processLeads on a store whose lookups may throw
NextCheck == CheckFaulty("A") \/ Resume("A")
SpecCheck == InitStore /\ [][NextCheck]_vars

----------------------------------------------------------------------------
(* Calls of addLead, updateLead and deleteLead on a Database that starts   *)
(* empty.                                                                  *)

\* Object.assign(lead, updates, { updatedAt }): updates has the properties
\* id to score, those with the value Undef being absent
Updated(lead, updates) ==
    [id |-> Over(lead.id, updates.id),
     source |-> Over(lead.source, updates.source),
     url |-> Over(lead.url, updates.url),
     title |-> Over(lead.title, updates.title),
     text |-> Over(lead.text, updates.text),
     score |-> Over(lead.score, updates.score),
     processed |-> lead.processed]

\* updateLead(id, updates): found is FALSE where the code returns null
updateLead(leads, id, updates) ==
    LET j == FindById(leads, id, 1)
    IN IF j # 0
       THEN [found |-> TRUE, saved |-> TRUE,
             leads |-> [leads EXCEPT ![j] = Updated(@, updates)]]
       ELSE [found |-> FALSE, saved |-> FALSE, leads |-> leads]

\* leads.splice(index, 1)
Splice(leads, index) ==
    [k \in 1..(Len(leads) - 1) |-> IF k < index THEN leads[k] ELSE leads[k + 1]]

\* deleteLead(id): findIndex gives the first lead with the id
deleteLead(leads, id) ==
    LET index == FindById(leads, id, 1)
    IN IF index # 0
       THEN [deleted |-> TRUE, leads |-> Splice(leads, index)]
       ELSE [deleted |-> FALSE, leads |-> leads]

\* the leads and the updates the calls are made with
DbIds == {Str(<<"1">>), Str(<<"2">>)}
Hot == Str(<<"H", "O", "T">>)
Warm == Str(<<"W", "A", "R", "M">>)
DbLeads ==
    [id : DbIds, source : {Str(<<"h", "n">>)}, url : {Undef},
     title : {Str(<<"H", "i">>)}, text : {Undef}, score : {Hot, Warm},
     processed : {FALSE}]
DbUpdates ==
    [id : DbIds \cup {Undef}, source : {Undef}, url : {Undef},
     title : {Undef}, text : {Undef}, score : {Undef, Warm}]

DbInit ==
    /\ dbLeads = <<>>
    /\ dbSaves = 0
    /\ runs = <<>>
    /\ stale = FALSE
    /\ dbCall = NoCall

\* what is known of the store before a call: whether the id was stored, and
\* the number of leads
Before(op, id, arg) ==
    [op |-> op, id |-> id, arg |-> arg, answer |-> FALSE,
     had |-> FindById(dbLeads, id, 1) # 0, len |-> Len(dbLeads),
     n |-> dbCall.n + 1, rekeyed |-> dbCall.rekeyed]

\* db.addLead(lead)
AddLead ==
    /\ dbCall.n < MaxCalls
    /\ \E lead \in DbLeads :
           LET result == addLead(dbLeads, lead)
           IN /\ dbLeads' = result.leads
              /\ dbSaves' = dbSaves + 1
              /\ dbCall' = [Before("addLead", lead.id, lead)
                                EXCEPT !.answer = result.added]
    /\ UNCHANGED <<runs, stale, simVars, dupVars, batchVars, instVars>>

\* db.updateLead(id, updates); rekeyed records that some call so far gave a
\* stored lead another id
UpdateLead ==
    /\ dbCall.n < MaxCalls
    /\ \E id \in DbIds, updates \in DbUpdates :
           LET result == updateLead(dbLeads, id, updates)
           IN /\ dbLeads' = result.leads
              /\ dbSaves' = IF result.saved THEN dbSaves + 1 ELSE dbSaves
              /\ dbCall' = [Before("updateLead", id, updates)
                                EXCEPT !.answer = result.found,
                                       !.rekeyed = @ \/ (result.found
                                                         /\ updates.id # Undef
                                                         /\ updates.id # id)]
    /\ UNCHANGED <<runs, stale, simVars, dupVars, batchVars, instVars>>

\* db.deleteLead(id)
DeleteLead ==
    /\ dbCall.n < MaxCalls
    /\ \E id \in DbIds :
           LET result == deleteLead(dbLeads, id)
           IN /\ dbLeads' = result.leads
              /\ dbSaves' = IF result.deleted THEN dbSaves + 1 ELSE dbSaves
              /\ dbCall' = [Before("deleteLead", id, Undef)
                                EXCEPT !.answer = result.deleted]
    /\ UNCHANGED <<runs, stale, simVars, dupVars, batchVars, instVars>>

InitDb == Idle_sim /\ Idle_dup /\ Idle_batch /\ Idle_inst /\ DbInit
NextDb == AddLead \/ UpdateLead \/ DeleteLead
SpecDb == InitDb /\ [][NextDb]_vars

----------------------------------------------------------------------------
(* Properties of dedupe, checked under Spec.                               *)

Deduped == pc \in {"deduped", "again"}

\* a lead without the duplicateOf field of a duplicate record
Posting(d) ==
    [id |-> d.id, source |-> d.source, url |-> d.url,
     title |-> d.title, text |-> d.text]

StrictlyIncreasing(s) == \A k \in 1..(Len(s) - 1) : s[k] < s[k + 1]

\* C1: count conservation.  After dedupe(batch), every input position is the
\* origin of exactly one element of unique or of duplicates, so
\* unique.length + duplicates.length is the number of input postings.
C1_CountConservation ==
    Deduped =>
        /\ Len(out1.unique) + Len(out1.duplicates) = Len(batch)
        /\ Range(out1.uFrom) \cup Range(out1.dFrom) = 1..Len(batch)
        /\ Range(out1.uFrom) \cap Range(out1.dFrom) = {}
        /\ Cardinality(Range(out1.uFrom)) = Len(out1.unique)
        /\ Cardinality(Range(out1.dFrom)) = Len(out1.duplicates)

\* three postings, the second repeating the url of the first: 2 unique, 1 duplicate
C1_Witness ==
    /\ pc = "deduped"
    /\ Len(batch) = 3
    /\ Truthy(batch[1].url) /\ batch[2].url = batch[1].url
    /\ Len(out1.unique) = 2
    /\ Len(out1.duplicates) = 1
    /\ out1.dFrom = <<2>>

\* the indices of the unique leads that isDuplicate accepts for lead
MatchesIn(lead, unique) ==
    {j \in 1..Len(unique) : isDuplicate(det, lead, unique[j])}

Least(S) == CHOOSE m \in S : \A x \in S : m <= x

\* C2: a posting placed in duplicates is there once, its duplicateOf is the id
\* of the first posting of unique that isDuplicate(posting, thatUnique) accepts,
\* and the run compared it with the unique postings up to that one and with
\* none after it.
C2_FirstMatchWins ==
    Deduped =>
        \A k \in 1..Len(out1.duplicates) :
            LET i == out1.dFrom[k]
                lead == out1.leads[i]
                matches == MatchesIn(lead, out1.unique)
            IN /\ \A k2 \in 1..Len(out1.duplicates) :
                      out1.dFrom[k2] = i => k2 = k
               /\ Posting(out1.duplicates[k]) = lead
               /\ matches # {}
               /\ out1.duplicates[k].duplicateOf = out1.unique[Least(matches)].id
               /\ {c[2] : c \in {c \in Range(out1.cmp) : c[1] = i}}
                      = 1..Least(matches)

\* a duplicate that two unique postings with different ids would both accept
C2_Witness ==
    /\ pc = "deduped"
    /\ \E k \in 1..Len(out1.duplicates) :
           LET matches == MatchesIn(out1.leads[out1.dFrom[k]], out1.unique)
           IN /\ Cardinality(matches) >= 2
              /\ \E j \in matches :
                     out1.unique[j].id # out1.unique[Least(matches)].id

\* C3: after dedupe, no two postings of unique have the same id.
C3_UniqueIdsDistinct ==
    Deduped =>
        \A i, j \in 1..Len(out1.unique) :
            i # j => out1.unique[i].id # out1.unique[j].id

\* C7: batch idempotence.  dedupe of the unique list of a first dedupe returns
\* that list, posting for posting and in order, and no duplicates.
C7_BatchIdempotence ==
    pc = "again" =>
        /\ out2.unique = out1.unique
        /\ out2.duplicates = <<>>

\* a first call that found a duplicate and kept two postings, one of which
\* came with an id
C7_Witness ==
    /\ pc = "again"
    /\ Len(out1.duplicates) >= 1
    /\ Len(out1.unique) >= 2
    /\ \E i \in 1..Len(batch) : i \in Range(out1.uFrom) /\ Truthy(batch[i].id)
    /\ Len(out2.cmp) >= 1

\* C8: order preservation.  unique and duplicates each list postings of the
\* input at strictly increasing input positions.
C8_OrderPreserved ==
    Deduped =>
        /\ StrictlyIncreasing(out1.uFrom)
        /\ StrictlyIncreasing(out1.dFrom)
        /\ Len(out1.uFrom) = Len(out1.unique)
        /\ Len(out1.dFrom) = Len(out1.duplicates)
        /\ \A k \in 1..Len(out1.unique) :
               out1.unique[k] = EnsureId(batch[out1.uFrom[k]])
        /\ \A k \in 1..Len(out1.duplicates) :
               Posting(out1.duplicates[k]) = EnsureId(batch[out1.dFrom[k]])

\* unique and duplicates interleave: a duplicate found between two different
\* unique postings
C8_Witness ==
    /\ pc = "deduped"
    /\ Len(out1.unique) >= 2
    /\ Len(out1.duplicates) >= 1
    /\ out1.unique[1] # out1.unique[2]
    /\ out1.uFrom[1] < out1.dFrom[1]
    /\ out1.dFrom[1] < out1.uFrom[2]

----------------------------------------------------------------------------
(* Properties of isDuplicate, checked under SpecDup.                       *)

\* the Jaccard index of the token sets of two strings as the specification
\* defines it: |A \cap B| / |A \cup B|, and 0 when both sets are empty
JaccardIndex(a, b) ==
    LET A == Range(tokenize(a))
        B == Range(tokenize(b))
    IN IF A \cup B = {} THEN Quot(0, 1)
       ELSE Quot(Cardinality(A \cap B), Cardinality(A \cup B))

\* the order of the rationals, for quotients with a positive divisor
RatGE(x, t) == x.n * t.d >= t.n * x.d
RatEq(x, t) == x.n * t.d = t.n * x.d
RatLT(x, t) == x.n * t.d < t.n * x.d

\* the three tests of the classifier on dupA and dupB, each on its own
UrlTier ==
    /\ dupA.url.k = "str" /\ dupA.url.v # <<>>
    /\ dupB.url.k = "str" /\ dupB.url.v # <<>>
    /\ dupA.url.v = dupB.url.v
TitleTier ==
    /\ dupA.source = dupB.source
    /\ RatGE(JaccardIndex(dupA.title, dupB.title), dupDet.titleThreshold)
ContentTier ==
    RatGE(JaccardIndex(Content(dupA), Content(dupB)),
          dupDet.similarityThreshold)

\* C4: isDuplicate returns true iff one of the three tiers matches, the tiers
\* being tried in the order url, same-source title, content: a same-source
\* pair that fails the title tier still gets the content tier, and a pair of
\* different sources matches only by the url tier or the content tier.
C4_TieredDecision ==
    dupPc = "done" =>
        /\ dupOut.dup = (UrlTier \/ TitleTier \/ ContentTier)
        /\ dupOut.tier =
               (IF UrlTier THEN 1 ELSE IF TitleTier THEN 2
                ELSE IF ContentTier THEN 3 ELSE 0)
        /\ (dupA.source # dupB.source /\ dupOut.dup) => dupOut.tier \in {1, 3}

\* a pair of one source whose titles fail the title tier and whose contents
\* pass the content tier, under the default thresholds
C4_Witness ==
    /\ dupPc = "done"
    /\ dupDet.titleThreshold = DefaultTitleThreshold
    /\ dupDet.similarityThreshold = DefaultSimilarityThreshold
    /\ dupA.source = dupB.source
    /\ ~UrlTier /\ ~TitleTier /\ ContentTier
    /\ dupOut.dup /\ dupOut.tier = 3 /\ dupOut.sims = 2

\* C5: two postings with equal non-empty urls are duplicates whatever their
\* source, title and text, and no similarity is computed for them.
C5_UrlShortCircuit ==
    (dupPc = "done" /\ UrlTier) =>
        /\ dupOut.dup
        /\ dupOut.tier = 1
        /\ dupOut.sims = 0

\* equal urls on postings of different sources, one with a title and a text
\* full of tokens, the other with a different title and no text: they share
\* no token, and neither the title tier nor the content tier would match
C5_Witness ==
    /\ dupPc = "done"
    /\ UrlTier
    /\ dupA.source # dupB.source
    /\ Truthy(dupA.title) /\ Truthy(dupA.text)
    /\ Truthy(dupB.title) /\ dupB.text = Undef
    /\ Range(tokenize(Content(dupA))) # {}
    /\ JaccardIndex(Content(dupA), Content(dupB)).n = 0
    /\ ~TitleTier /\ ~ContentTier
    /\ dupOut.dup

\* C6: the threshold comparisons are inclusive.  For a same-source pair with
\* no url match, a title similarity equal to the title threshold makes the
\* pair a duplicate by the title tier and a smaller one does not; where
\* neither the url tier nor the title tier matched, a content similarity equal
\* to the general threshold makes the pair a duplicate and a smaller one does
\* not.
C6_InclusiveThresholds ==
    LET titleSim == JaccardIndex(dupA.title, dupB.title)
        contentSim == JaccardIndex(Content(dupA), Content(dupB))
    IN (dupPc = "done" /\ ~UrlTier) =>
        /\ dupA.source = dupB.source =>
              /\ RatEq(titleSim, dupDet.titleThreshold) =>
                     dupOut.dup /\ dupOut.tier = 2
              /\ RatLT(titleSim, dupDet.titleThreshold) => dupOut.tier # 2
        /\ ~TitleTier =>
              /\ RatEq(contentSim, dupDet.similarityThreshold) =>
                     dupOut.dup /\ dupOut.tier = 3
              /\ RatLT(contentSim, dupDet.similarityThreshold) => ~dupOut.dup

\* titles sharing 9 tokens of 10 under the title threshold 0.9
C6_Witness ==
    /\ dupPc = "done"
    /\ ~UrlTier
    /\ dupA.source = dupB.source
    /\ dupDet.titleThreshold = Quot(9, 10)
    /\ JaccardIndex(dupA.title, dupB.title) = Quot(9, 10)
    /\ dupOut.dup /\ dupOut.tier = 2

\* contents sharing 17 tokens of 20 under the general threshold 0.85
C6_ContentAtThreshold ==
    /\ dupPc = "done"
    /\ ~UrlTier /\ ~TitleTier
    /\ dupDet.similarityThreshold = Quot(85, 100)
    /\ JaccardIndex(Content(dupA), Content(dupB)) = Quot(17, 20)
    /\ dupOut.dup /\ dupOut.tier = 3

\* titles sharing 8 tokens of 9 under the title threshold 0.9: no match by
\* the title tier
C6_TitleJustBelow ==
    /\ dupPc = "done"
    /\ ~UrlTier
    /\ dupA.source = dupB.source
    /\ dupDet.titleThreshold = Quot(9, 10)
    /\ JaccardIndex(dupA.title, dupB.title) = Quot(8, 9)
    /\ dupOut.tier # 2

\* contents sharing 16 tokens of 19 under the general threshold 0.85: no match
C6_ContentJustBelow ==
    /\ dupPc = "done"
    /\ ~UrlTier /\ ~TitleTier
    /\ dupDet.similarityThreshold = Quot(85, 100)
    /\ JaccardIndex(Content(dupA), Content(dupB)) = Quot(16, 19)
    /\ ~dupOut.dup

----------------------------------------------------------------------------
(* Properties of jaccardSimilarity, checked under SpecSim.                 *)

NoTokens(x) == Range(tokenize(x)) = {}

\* C9: symmetry.  For all strings a and b, empty and token-less ones
\* included, jaccardSimilarity(a, b) == jaccardSimilarity(b, a), == being the
\* comparison of two numbers.
C9_JaccardSymmetric ==
    simPc = "done" => NumEq(simAB, simBA)

\* C9 where a token exists: the two calls return equal numbers whenever one
\* of the strings has a token (the union is not empty)
C9_SymmetricWithTokens ==
    (simPc = "done" /\ ~(NoTokens(strA) /\ NoTokens(strB))) =>
        NumEq(simAB, simBA)

\* C10: identity.  jaccardSimilarity(a, a) == 1 for every non-empty string a,
\* and jaccardSimilarity("", "") == 0, a number and not NaN.
C10_JaccardIdentity ==
    simPc = "done" =>
        /\ (strA = strB /\ strA.v # <<>>) => NumEq(simAB, Quot(1, 1))
        /\ (strA.v = <<>> /\ strB.v = <<>>) =>
               ~IsNaN(simAB) /\ NumEq(simAB, Quot(0, 1))

\* C10 where a token exists: jaccardSimilarity(a, a) == 1 for every string a
\* that has a token
C10_IdentityWithTokens ==
    (simPc = "done" /\ strA = strB /\ ~NoTokens(strA)) =>
        NumEq(simAB, Quot(1, 1))

\* C11: range.  jaccardSimilarity(a, b) is a number x with 0 <= x <= 1 for all
\* strings a and b, the case of two empty token sets included (where the
\* division is 0 / 0).
C11_JaccardRange ==
    simPc = "done" =>
        /\ ~IsNaN(simAB)
        /\ NumGE(simAB, Quot(0, 1))
        /\ NumGE(Quot(1, 1), simAB)

\* C11 where a token exists: the quotient of the two sizes lies in [0, 1]
C11_RangeWithTokens ==
    (simPc = "done" /\ ~(NoTokens(strA) /\ NoTokens(strB))) =>
        /\ simAB.d > 0
        /\ 0 <= simAB.n
        /\ simAB.n <= simAB.d

----------------------------------------------------------------------------
(* Properties of the constructor and of isDuplicate on the postings of     *)
(* SpecInst.                                                               *)

\* a posting whose url, title and text are strings or missing
AllStrings(lead) ==
    lead.url.k # "num" /\ lead.title.k # "num" /\ lead.text.k # "num"

\* the threshold a detector is to apply for an option: the option's value
\* when one is given, 0 included, and the default otherwise
ThresholdFor(option, default) == IF option = NoOption THEN default ELSE option

\* isDuplicate(instA, instB) as the three tiers define it under a title
\* threshold t1 and a general threshold t2
TiersOn(a, b, t1, t2) ==
    \/ /\ a.url.k = "str" /\ a.url.v # <<>>
       /\ a.url = b.url
    \/ /\ a.source = b.source
       /\ RatGE(JaccardIndex(a.title, b.title), t1)
    \/ RatGE(JaccardIndex(Content(a), Content(b)), t2)
TiersUnder(t1, t2) == TiersOn(instA, instB, t1, t2)

\* detector i holds and applies the thresholds its constructor was given
AppliesGiven(i) ==
    LET t1 == ThresholdFor(instGiven[i].titleThreshold, Quot(9, 10))
        t2 == ThresholdFor(instGiven[i].similarityThreshold, Quot(85, 100))
    IN /\ RatEq(insts[i].titleThreshold, t1)
       /\ RatEq(insts[i].similarityThreshold, t2)
       /\ (i <= Len(instRuns) /\ ~instRuns[i].threw) =>
              instRuns[i].run.dup = TiersUnder(t1, t2)

\* C12: a detector constructed with title threshold t1 and similarity
\* threshold t2, for any values in [0, 1] and 0 among them, applies exactly t1
\* in the title tier and t2 in the content tier; one constructed without
\* options applies 0.9 and 0.85; and of two detectors each keeps the
\* thresholds it was given, whatever the other was given.
C12_ThresholdsAsGiven ==
    \A i \in 1..Len(insts) : AppliesGiven(i)

\* C12 for the options that are not 0: every detector holds and applies what
\* it was given, or the defaults
C12_NonZeroThresholds ==
    \A i \in 1..Len(insts) :
        (/\ instGiven[i].titleThreshold # Quot(0, 1)
         /\ instGiven[i].similarityThreshold # Quot(0, 1)
         /\ AllStrings(instA) /\ AllStrings(instB)) => AppliesGiven(i)

\* two detectors given different thresholds disagree on one pair of postings
C12_TwoDetectorsDiffer ==
    /\ instPc = "called"
    /\ instGiven[1] # instGiven[2]
    /\ instGiven[1] = NoOptions
    /\ ~instRuns[1].run.dup /\ instRuns[2].run.dup

\* a field as the classifier is to read it: a value that is missing or not a
\* string counts as the empty string
AsString(x) == IF x.k = "str" THEN x ELSE Str(<<>>)
Coerced(lead) ==
    [lead EXCEPT !.url = AsString(@), !.title = AsString(@),
                 !.text = AsString(@)]

\* C13: isDuplicate and dedupe never throw when a posting's title, text or
\* url is missing or is not a string (a number): such a field is treated as
\* the empty string in every tier, and dedupe completes the whole batch.
C13_NeverThrows ==
    /\ \A i \in 1..Len(instRuns) :
           /\ ~instRuns[i].threw
           /\ instRuns[i].run.dup =
                  TiersOn(Coerced(instA), Coerced(instB),
                          insts[i].titleThreshold,
                          insts[i].similarityThreshold)
    /\ instPc = "deduped" =>
           /\ ~instPair.threw
           /\ Len(instPair.run.unique) + Len(instPair.run.duplicates) = 2

\* C13 for fields that are missing: with every field a string or missing,
\* isDuplicate and dedupe return, a missing field counts as the empty string
\* and dedupe places both postings
C13_MissingFieldsSafe ==
    (AllStrings(instA) /\ AllStrings(instB)) => C13_NeverThrows

\* a pair that has missing fields on both sides and no number, classified
C13_MissingFieldsCase ==
    /\ instPc = "deduped"
    /\ AllStrings(instA) /\ AllStrings(instB)
    /\ instA.title = Undef /\ instA.url = Undef
    /\ instB.text = Undef /\ Truthy(instB.title)
    /\ ~instPair.threw

----------------------------------------------------------------------------
(* Properties of checkExisting, checked under SpecCheck and SpecStore.     *)

\* the run is waiting for a checkExisting made on the store as it is now
FreshCheck(r) == runs[r].pc = "await" /\ runs[r].seen = dbSaves

\* the positions of the stored leads that have the id of lead
IdMatches(lead) == {j \in 1..Len(dbLeads) : dbLeads[j].id = lead.id}

\* the positions of the stored leads that isDuplicate(lead, stored) accepts
SimilarTo(lead) ==
    {j \in 1..Len(dbLeads) : isDuplicate(collectorDedupe, lead, dbLeads[j])}

\* C14: if getLeadById or getAllLeads throws during checkExisting, the call
\* fails with that error and its caller gets it: there is no answer, each
\* lookup is called at most once, and the error is not replaced or dropped.
C14_StoreFailurePropagates ==
    \A r \in Runs :
        LET run == runs[r]
            out == run.existing
        IN /\ run.pc \in {"await", "failed"} =>
                  /\ out.byId <= 1 /\ out.all <= 1
                  /\ run.fault = "getLeadById" =>
                         /\ out.threw /\ out.error = "getLeadById"
                         /\ out.byId = 1 /\ out.all = 0
                  /\ (run.fault = "getAllLeads" /\ IdMatches(run.lead) = {}) =>
                         /\ out.threw /\ out.error = "getAllLeads"
                         /\ out.byId = 1 /\ out.all = 1
                  /\ out.threw => out.answer = NoAnswer /\ out.cmp = 0
           /\ run.pc = "failed" =>
                  /\ out.threw
                  /\ run.error = run.fault
           /\ (run.pc = "loop" /\ run.n > 0) => run.fault = "none"

\* getAllLeads threw on a store that holds a lead, and the run of
\* processLeads ended with that error
C14_Witness ==
    /\ runs["A"].pc = "failed"
    /\ runs["A"].error = "getAllLeads"
    /\ Len(dbLeads) >= 1
    /\ runs["A"].existing.all = 1

\* C15: checkExisting looks the id up first.  When the store holds a lead
\* with the id of the posting, the answer is exists with that stored lead,
\* and neither getAllLeads nor isDuplicate was called, even where another
\* stored lead would be accepted by isDuplicate.
C15_IdLookupFirst ==
    \A r \in Runs :
        (FreshCheck(r) /\ IdMatches(runs[r].lead) # {}) =>
            LET out == runs[r].existing
            IN /\ ~out.threw
               /\ out.answer.exists
               /\ \E j \in IdMatches(runs[r].lead) :
                      out.answer.lead = dbLeads[j]
               /\ ~out.answer.similar
               /\ out.byId = 1 /\ out.all = 0 /\ out.cmp = 0

\* the id is that of the second stored lead, and the first stored lead, of
\* another id, is one isDuplicate accepts
C15_Witness ==
    \E r \in Runs :
        /\ FreshCheck(r)
        /\ IdMatches(runs[r].lead) = {2}
        /\ 1 \in SimilarTo(runs[r].lead)
        /\ runs[r].existing.answer.lead = dbLeads[2]
        /\ runs[r].lead.url # dbLeads[2].url

\* C16: when no stored lead has the id of the posting, checkExisting compares
\* the posting with the stored leads in the order of the store and answers
\* exists, similar and the first stored lead that isDuplicate accepts; it
\* answers exists = false iff no stored lead has the id and isDuplicate
\* accepts none.
C16_FirstSimilarReturned ==
    \A r \in Runs :
        FreshCheck(r) =>
            LET out == runs[r].existing
                lead == runs[r].lead
                similar == SimilarTo(lead)
            IN /\ (IdMatches(lead) = {} /\ similar # {}) =>
                      /\ out.answer.exists
                      /\ out.answer.similar
                      /\ out.answer.lead = dbLeads[Least(similar)]
                      /\ out.all = 1
                      /\ out.cmp = Least(similar)
               /\ (IdMatches(lead) = {} /\ similar = {}) =>
                      /\ out.answer = NoAnswer
                      /\ out.cmp = Len(dbLeads)
               /\ ~out.answer.exists <=>
                      (IdMatches(lead) = {} /\ similar = {})

\* no stored lead has the id, and isDuplicate accepts two stored leads that
\* differ
C16_Witness ==
    \E r \in Runs :
        /\ FreshCheck(r)
        /\ IdMatches(runs[r].lead) = {}
        /\ {1, 2} \subseteq SimilarTo(runs[r].lead)
        /\ dbLeads[1].url # dbLeads[2].url
        /\ runs[r].existing.answer.lead = dbLeads[1]

\* no stored lead has the id and isDuplicate accepts none: exists = false
C16_NothingMatches ==
    \E r \in Runs :
        /\ FreshCheck(r)
        /\ Len(dbLeads) >= 2
        /\ runs[r].existing.answer = NoAnswer
        /\ runs[r].existing.cmp = Len(dbLeads)

----------------------------------------------------------------------------
(* Properties of the ids dedupe assigns, checked under Spec and SpecInst.  *)

\* C17: dedupe gives a posting that lacks an id the id generateId(posting)
\* before comparing it, so every posting of unique and of duplicates has an
\* id, and the duplicateOf of a duplicate is the id of a posting of unique
\* that stands before the duplicate in the input.
C17_IdsAssigned ==
    Deduped =>
        /\ \A i \in 1..Len(batch) :
               ~Truthy(batch[i].id) =>
                   out1.leads[i].id = generateId(batch[i])
        /\ \A k \in 1..Len(out1.unique) : Truthy(out1.unique[k].id)
        /\ \A k \in 1..Len(out1.duplicates) :
               /\ Truthy(out1.duplicates[k].id)
               /\ Truthy(out1.duplicates[k].duplicateOf)
               /\ \E m \in 1..Len(out1.unique) :
                      /\ out1.duplicates[k].duplicateOf = out1.unique[m].id
                      /\ out1.uFrom[m] < out1.dFrom[k]

\* a duplicate that came without an id, of a unique posting that came
\* without an id: both carry generated ids, which differ
C17_Witness ==
    /\ pc = "deduped"
    /\ \E k \in 1..Len(out1.duplicates), m \in 1..Len(out1.unique) :
           /\ batch[out1.dFrom[k]].id = Undef
           /\ batch[out1.uFrom[m]].id = Undef
           /\ out1.duplicates[k].duplicateOf = out1.unique[m].id
           /\ out1.duplicates[k].id # out1.unique[m].id
           /\ out1.uFrom[m] < out1.dFrom[k]

\* the three values an id is made of: the source, the url ('' when there is
\* none) and the title (the text when there is no title, '' when there is
\* neither)
IdKey(lead) ==
    <<lead.source,
      IF Truthy(lead.url) THEN lead.url ELSE Str(<<>>),
      IF Truthy(lead.title) THEN lead.title
      ELSE IF Truthy(lead.text) THEN lead.text ELSE Str(<<>>)>>

\* C18: the id generateId gives depends on the source, the url and the title
\* (the text when the title is missing) of a posting and on nothing else:
\* two postings equal in these get the same id, generating the id of a
\* posting again gives the same id, and dedupe does not replace an id the
\* posting came with.
C18_IdDeterministic ==
    (instPc = "deduped" /\ ~instPair.threw) =>
        LET a == instPair.run.leads[1]
            b == instPair.run.leads[2]
        IN /\ Truthy(instA.id) => a.id = instA.id
           /\ Truthy(instB.id) => b.id = instB.id
           /\ ~Truthy(instA.id) => a.id = generateId(a)
           /\ ~Truthy(instB.id) => b.id = generateId(b)
           /\ (~Truthy(instA.id) /\ ~Truthy(instB.id)
                  /\ IdKey(instA) = IdKey(instB)) => a.id = b.id

\* two postings without an id, equal in source, url and title and different
\* in their text, get one id
C18_Witness ==
    /\ instPc = "deduped"
    /\ ~instPair.threw
    /\ instA.id = Undef /\ instB.id = Undef
    /\ IdKey(instA) = IdKey(instB)
    /\ Truthy(instA.title) /\ Truthy(instA.url)
    /\ instA.text # instB.text
    /\ instPair.run.leads[1].id = instPair.run.leads[2].id

\* a posting that came with an id keeps it, next to one that is given an id
C18_CallerIdKept ==
    /\ instPc = "deduped"
    /\ ~instPair.threw
    /\ Truthy(instA.id) /\ instB.id = Undef
    /\ IdKey(instA) = IdKey(instB)
    /\ instPair.run.leads[1].id = instA.id
    /\ instPair.run.leads[2].id # instA.id

----------------------------------------------------------------------------
(* The two titles "Need Google Ads Help ASAP" and "Need Google Ads Help    *)
(* ASAP Now", checked under SpecInst.                                      *)

\* instA and instB are postings of one source that carry the two titles, and
\* the first detector, built without options, has classified them
AsapPair ==
    /\ instPc \in {"called", "deduped"}
    /\ instGiven[1] = NoOptions
    /\ instA.source = instB.source
    /\ {instA.title, instB.title} = {Str(AsapTitle), Str(AsapNowTitle)}

\* C19: two postings of one source with the titles "Need Google Ads Help
\* ASAP" and "Need Google Ads Help ASAP Now" have a title similarity of at
\* least 0.9 and are duplicates for isDuplicate under the default thresholds,
\* whatever their urls and texts.
C19_AsapTitlesDuplicate ==
    AsapPair =>
        /\ RatGE(JaccardIndex(instA.title, instB.title), Quot(9, 10))
        /\ instRuns[1].run.dup

\* C19 as the code has it: the title similarity of the two titles is 5/6,
\* which is below 0.9, so the title tier does not match; the pair is a
\* duplicate exactly when the urls are equal and not empty or the similarity
\* of the contents (title and text) is at least 0.85.
C19_AsapTitlesFiveSixths ==
    AsapPair =>
        /\ ~instRuns[1].threw
        /\ jaccardSimilarity(instA.title, instB.title) = Quot(5, 6)
        /\ RatLT(Quot(5, 6), DefaultTitleThreshold)
        /\ instRuns[1].run.tier # 2
        /\ instRuns[1].run.dup =
               (\/ Truthy(instA.url) /\ instA.url = instB.url
                \/ RatGE(JaccardIndex(Content(instA), Content(instB)),
                         Quot(85, 100)))

\* the two titles on postings with different urls and different texts: not
\* duplicates
C19_Witness ==
    /\ AsapPair
    /\ instA.url.k = "str" /\ instB.url.k = "str"
    /\ Truthy(instA.url) /\ Truthy(instB.url) /\ instA.url # instB.url
    /\ instA.text # instB.text
    /\ ~instRuns[1].run.dup
    /\ instRuns[1].run.sims = 2

\* the two titles on postings whose contents have the same tokens: duplicates
\* by the content tier
C19_ByContent ==
    /\ AsapPair
    /\ instRuns[1].run.dup
    /\ instRuns[1].run.tier = 3

----------------------------------------------------------------------------
(* Properties of concurrent runs of processLeads, checked under SpecStore. *)

\* the store holds two leads of which isDuplicate accepts one for the other
DuplicatesStored ==
    \E i, j \in 1..Len(dbLeads) :
        /\ i < j
        /\ \/ isDuplicate(collectorDedupe, dbLeads[j], dbLeads[i])
           \/ isDuplicate(collectorDedupe, dbLeads[i], dbLeads[j])

\* C20: checkExisting followed by addLead is not atomic.  Two runs of
\* processLeads on one store can both get exists = false for postings of
\* different ids that are duplicates of each other and both insert them, so
\* a store holding two leads p, q with isDuplicate(p, q) is reachable; and a
\* store that started empty comes to hold such a pair only through an
\* addLead made on a store that changed after the run's checkExisting.
C20_DuplicatesOnlyByRace ==
    DuplicatesStored => stale

\* each of the two runs was given one posting, got exists = false and added
\* it; the two stored leads have different ids and are duplicates
C20_Witness ==
    /\ \A r \in Runs :
           /\ runs[r].pc = "loop" /\ runs[r].n = 1
           /\ runs[r].added = 1 /\ runs[r].duplicates = 0
    /\ Len(dbLeads) = 2
    /\ dbLeads[1].id # dbLeads[2].id
    /\ isDuplicate(collectorDedupe, dbLeads[2], dbLeads[1])
    /\ isDuplicate(collectorDedupe, dbLeads[1], dbLeads[2])
    /\ stale

\* runs that did not overlap: after two postings added one after the other
\* the store holds no duplicates
C20_SequentialClean ==
    /\ Len(dbLeads) = 2
    /\ ~stale
    /\ ~DuplicatesStored
    /\ \A r \in Runs : runs[r].pc = "loop" /\ runs[r].n = 2

----------------------------------------------------------------------------
(* Properties of the Database, checked under SpecDb.                       *)

\* the properties an updates object has
Given(updates) ==
    {f \in {"id", "source", "url", "title", "text", "score"} :
        updates[f] # Undef}

\* C21: store round trip.  addLead of a lead whose id is not stored answers
\* added = true and getLeadById(id) then returns that lead; after
\* updateLead(id, updates) on a stored id, getLeadById(id) returns a lead
\* that has the updated fields; after deleteLead(id), getLeadById(id)
\* returns nothing.
C21_StoreRoundTrip ==
    LET lead == getLeadById(dbLeads, dbCall.id)
    IN /\ (dbCall.op = "addLead" /\ ~dbCall.had)
              => (dbCall.answer /\ lead = dbCall.arg)
       /\ (dbCall.op = "updateLead" /\ dbCall.had)
              => /\ dbCall.answer
                 /\ lead # Undef
                 /\ \A f \in Given(dbCall.arg) : lead[f] = dbCall.arg[f]
       /\ dbCall.op = "deleteLead" => lead = Undef

\* the round trip holds as long as no updateLead gave a lead another id
C21_RoundTripIdKept ==
    ~dbCall.rekeyed => C21_StoreRoundTrip

\* the round trip of the test: a lead added, its score updated, then deleted
C21_TestRoundTrip ==
    /\ dbCall.op = "deleteLead" /\ dbCall.had /\ dbCall.answer
    /\ dbCall.n = 3 /\ dbSaves = 3 /\ ~dbCall.rekeyed
    /\ dbLeads = <<>>

\* C30: after any sequence of addLead, updateLead and deleteLead calls on a
\* Database that starts empty no two stored leads have the same id; addLead
\* with a stored id answers added = false and appends nothing, and
\* updateLead adds no record.
C30_UniqueIds ==
    /\ \A i, j \in 1..Len(dbLeads) : i # j => dbLeads[i].id # dbLeads[j].id
    /\ (dbCall.op = "addLead" /\ dbCall.had)
           => (~dbCall.answer /\ Len(dbLeads) = dbCall.len)
    /\ dbCall.op = "updateLead" => Len(dbLeads) = dbCall.len

\* the ids stay unique as long as no updateLead gave a lead another id
C30_UniqueIdsIdKept ==
    ~dbCall.rekeyed => C30_UniqueIds

\* addLead merged into the stored record of the id
C30_Merged ==
    /\ dbCall.op = "addLead" /\ dbCall.had /\ ~dbCall.answer
    /\ Len(dbLeads) = 2
    /\ getLeadById(dbLeads, dbCall.id).score = dbCall.arg.score

----------------------------------------------------------------------------
(* Properties of the calls' effects on their arguments and on the          *)
(* detector.                                                               *)

\* what dedupe may make of an input posting: the same properties with the
\* same values, but for an id set where there was none
OnlyIdSet(before, after) ==
    /\ DOMAIN after = DOMAIN before
    /\ \A f \in DOMAIN before \ {"id"} : after[f] = before[f]
    /\ IF Truthy(before.id) THEN after.id = before.id ELSE Truthy(after.id)

C22_CheckFrame ==
    [][\A r \in Runs :
           (runs[r].pc = "loop" /\ runs'[r].pc = "await")
               => /\ dbLeads' = dbLeads
                  /\ dbSaves' = dbSaves
                  /\ runs'[r].lead \in StoreLeads]_vars

----------------------------------------------------------------------------
(* Properties of sequential ingestion, checked under SpecSeq.              *)

\* the calls of addLead the runs made that appended a lead
Added == runs["A"].added + runs["B"].added

\* C23: under sequential ingestion (runs of processLeads one after another
\* on a store that starts without duplicates) a posting for which
\* checkExisting answers exists = true is not given to addLead and leaves
\* the store as it is: every save of the store is an addLead that appended
\* a lead, and every posting of a run was either appended or counted as a
\* duplicate.  Each check is made on the store as it is, with every lead
\* added before in it, and answers exists = true iff a stored lead has the
\* id or is accepted by isDuplicate.  The store never holds two leads of
\* which one isDuplicate-matches the other.
C23_SequentialIngestion ==
    /\ ~stale
    /\ dbSaves = Added /\ Len(dbLeads) = Added
    /\ \A r \in Runs :
           LET run == runs[r]
           IN /\ run.pc = "loop" => run.n = run.added + run.duplicates
              /\ run.pc = "await" =>
                     /\ FreshCheck(r)
                     /\ run.n = run.added + run.duplicates
                     /\ run.existing.answer.exists
                            <=> (IdMatches(run.lead) \cup SimilarTo(run.lead)) # {}
    /\ ~DuplicatesStored

\* a run added a lead and a later run was given a duplicate of it with
\* another id, which was counted and not stored
C23_Witness ==
    /\ runs["A"].pc = "loop" /\ runs["A"].added = 1 /\ runs["A"].duplicates = 0
    /\ runs["B"].pc = "loop" /\ runs["B"].added = 1 /\ runs["B"].duplicates = 1
    /\ Len(dbLeads) = 2 /\ dbSaves = 2
    /\ ~stale

----------------------------------------------------------------------------
(* Properties of tokenize, checked under SpecSim.                          *)

\* The tokenizer as specified: the lowercased maximal runs of letters and
\* digits of more than 2 characters, in their order.  Every other character
\* ends a run: whitespace splits, and a character that is neither
\* alphanumeric nor whitespace is replaced by a space, which splits.
Alphanumerics == Range(Lowers) \cup Range(Uppers) \cup Digits
RECURSIVE RunsFrom(_, _, _, _)
RunsFrom(s, i, cur, out) ==
    LET ended == IF Len(cur) > 2 THEN Append(out, cur) ELSE out
    IN IF i > Len(s) THEN ended
       ELSE IF s[i] \in Alphanumerics
            THEN RunsFrom(s, i + 1, Append(cur, LowerChar(s[i])), out)
            ELSE RunsFrom(s, i + 1, <<>>, ended)
SpecifiedTokens(text) ==
    IF text = Undef THEN <<>> ELSE RunsFrom(text.v, 1, <<>>, <<>>)

\* C24: tokenize gives the specified tokens for every string of letters of
\* both cases, digits, underscores, punctuation and whitespace, and the
\* empty sequence for the empty string and for undefined.
C24_TokenizeAsSpecified ==
    simPc = "tokens" => tokA = SpecifiedTokens(strA)

\* tokenize gives the specified tokens for every string without underscore
C24_AsSpecifiedWithoutUnderscore ==
    (simPc = "tokens" /\ "_" \notin Range(strA.v))
        => tokA = SpecifiedTokens(strA)

\* a string of both cases, punctuation and a run of a tab and a space
C24_MixedString ==
    /\ simPc = "tokens"
    /\ strA = Str(<<"d", "e", "-", " ", "A", "B", "C", "\t", " ", "A", "B", "C", "\t">>)
    /\ tokA = << <<"a", "b", "c">>, <<"a", "b", "c">> >>

\* undefined tokenizes to the empty sequence
C24_Undefined ==
    simPc = "tokens" /\ strA = Undef /\ tokA = <<>>

----------------------------------------------------------------------------
(* Properties of isDuplicate on postings without tokens, checked under     *)
(* SpecDup.                                                                *)

\* a posting whose title and text have no token of more than 2 characters
Tokenless(lead) == NoTokens(lead.title) /\ NoTokens(lead.text)

\* C25: two postings that do not share an equal non-empty url and whose
\* titles and texts all tokenize to empty sets are not classified as
\* duplicates, whether their sources are equal or not: the call returns
\* false by its final return, after the title test (for equal sources) and
\* the content test found no similarity.
C25_NoTokensNoDuplicate ==
    (dupPc = "done" /\ ~UrlTier /\ Tokenless(dupA) /\ Tokenless(dupB))
        => /\ ~dupOut.dup
           /\ dupOut.tier = 0
           /\ dupOut.sims = IF dupA.source = dupB.source THEN 2 ELSE 1

\* two postings of one source with the same short title, no text and
\* different urls
C25_Witness ==
    /\ dupPc = "done"
    /\ dupA.source = dupB.source
    /\ dupA.title = Str(<<"H", "i">>) /\ dupB.title = dupA.title
    /\ dupA.text = Undef /\ dupB.text = Undef
    /\ Truthy(dupA.url) /\ Truthy(dupB.url) /\ dupA.url # dupB.url
    /\ ~dupOut.dup

\* two postings of different sources without title, text and url
C25_OtherSource ==
    /\ dupPc = "done"
    /\ dupA.source # dupB.source
    /\ dupA.title = Undef /\ dupB.title = Undef
    /\ dupA.text = Undef /\ dupB.text = Undef
    /\ dupA.url = Undef /\ dupB.url = Undef
    /\ ~dupOut.dup

\* C29: isDuplicate is symmetric.  For all postings p and q with string or
\* absent fields and every threshold setting, isDuplicate(p, q) and
\* isDuplicate(q, p) return the same value, by the same test.
C29_IsDuplicateSymmetric ==
    dupPc = "done" =>
        /\ dupOut.dup = dupBack.dup
        /\ dupOut.tier = dupBack.tier

\* a pair of one source of which one title's tokens are part of the
\* other's: duplicates both ways by the title test under the threshold 0.8
C29_Witness ==
    /\ dupPc = "done"
    /\ dupA.source = dupB.source
    /\ dupA.title = Str(Phrase(1, 8)) /\ dupB.title = Str(Phrase(1, 10))
    /\ dupDet.titleThreshold = Quot(4, 5)
    /\ dupOut.dup /\ dupOut.tier = 2
    /\ dupBack.dup /\ dupBack.tier = 2

\* token-less postings are not duplicates either way
C29_TokenlessBothWays ==
    /\ dupPc = "done"
    /\ Tokenless(dupA) /\ Tokenless(dupB) /\ ~UrlTier
    /\ ~dupOut.dup /\ ~dupBack.dup

----------------------------------------------------------------------------
(* Properties of dedupe on batches that differ in their ids, checked under *)
(* Spec.                                                                   *)

\* C26: matching never uses ids.  dedupe splits a batch and the batch with
\* all its ids left out at the same input positions into unique and
\* duplicates, by the same calls of isDuplicate; so any two batches that
\* differ only in the ids of their postings, or in which postings have one,
\* are split at the same positions.
C26_IdsNotUsed ==
    pc = "bare" =>
        /\ outBare.uFrom = out1.uFrom
        /\ outBare.dFrom = out1.dFrom
        /\ outBare.cmp = out1.cmp

\* two postings given with the same id are both unique, and a posting given
\* without id is a duplicate
C26_Witness ==
    /\ pc = "bare"
    /\ \E i, j \in Range(out1.uFrom) :
           i # j /\ Truthy(batch[i].id) /\ batch[i].id = batch[j].id
    /\ \E k \in Range(out1.dFrom) : ~Truthy(batch[k].id)
    /\ outBare.dFrom = out1.dFrom

\* C27: after dedupe of any batch the unique list is pairwise non-duplicate:
\* for any two postings u and v of unique, isDuplicate(u, v) and
\* isDuplicate(v, u) are both false, and no two postings of unique share an
\* equal non-empty url.
C27_UniquePairwiseDistinct ==
    Deduped =>
        \A m, n \in 1..Len(out1.unique) :
            m # n =>
                LET u == out1.unique[m]
                    v == out1.unique[n]
                IN /\ ~isDuplicate(det, u, v)
                   /\ ~isDuplicate(det, v, u)
                   /\ ~(u.url.k = "str" /\ u.url.v # <<>> /\ u.url = v.url)

\* a batch of MaxBatch postings of which two are unique, with the same
\* token-less title from different sources, and one is a duplicate
C27_Witness ==
    /\ pc = "deduped"
    /\ Len(batch) = MaxBatch
    /\ Len(out1.unique) = 2
    /\ out1.unique[1].title = out1.unique[2].title
    /\ out1.unique[1].source # out1.unique[2].source
    /\ Len(out1.duplicates) = 1

\* C28: dedupe compares a posting only with postings accepted into unique
\* before it, never with postings put in duplicates: every call of
\* isDuplicate is on a posting and an earlier unique one, and a posting is
\* put in unique iff isDuplicate accepts no unique posting before it, also
\* where it accepts an earlier posting that was put in duplicates.
C28_ComparedWithUniqueOnly ==
    Deduped =>
        /\ \A c \in Range(out1.cmp) :
               /\ c[2] \in 1..Len(out1.uFrom)
               /\ out1.uFrom[c[2]] < c[1]
        /\ \A i \in 1..Len(batch) :
               i \in Range(out1.uFrom)
                   <=> \A u \in Range(out1.uFrom) :
                           u < i => ~isDuplicate(det, out1.leads[i],
                                                 out1.leads[u])

\* a posting that isDuplicate-matches an earlier posting put in duplicates
\* (it shares its url with it) and no unique one, and is in unique
C28_Witness ==
    /\ pc = "deduped"
    /\ \E i \in Range(out1.uFrom), k \in Range(out1.dFrom) :
           /\ k < i
           /\ isDuplicate(det, out1.leads[i], out1.leads[k])
           /\ out1.leads[i].url = out1.leads[k].url
           /\ Truthy(out1.leads[i].url)

====
